---- MODULE Spec2Model ----
(***************************************************************************)
(* Extension properties of honeybee-core (honeybee/properties.py).         *)
(*                                                                         *)
(* A properties object (ModelProperties, RoomProperties, ...) carries the  *)
(* attributes that extension packages attach to its class.  An extension   *)
(* attaches a class-level property `name` whose getter returns the         *)
(* instance attribute `_name`; the aggregator methods of _Properties walk  *)
(* dir(self), probe each value with hasattr and invoke what they find.     *)
(*                                                                         *)
(* Python objects are modelled as records with a `kind` field; a dict is a *)
(* function from keys to such records.                                     *)
(***************************************************************************)
EXTENDS Integers, Sequences, FiniteSets, TLC

\* variant:  the class of the two properties objects
\* self:     the instance attributes of the properties object operated on
\* original: the instance attributes of the properties object it duplicates
\* ret:      what the caller holds of the call it made: its arguments, what
\*           it returned or raised, and the probes and invocations it made;
\*           NoCall once the caller has dropped it and is ready to call
VARIABLES variant, self, original, ret

vars == <<variant, self, original, ret>>

----------------------------------------------------------------------------
(* Bounds of the model *)

\* largest payload an extension attribute carries
MaxData == 1
\* most prefixes add_prefix is applied to one attribute
MaxPrefix == 1
\* longest include list to_dict is called with
MaxInclude == 2

----------------------------------------------------------------------------
(* Names *)

Variants == {"Model", "Room", "Face", "Shade", "Aperture", "Door"}

\* names under which extension packages attach their properties
ExtNames == {"energy", "radiance"}

do_not_duplicate == {"host", "to_dict", "ToString"}

\* the names of the model that start with an underscore
UnderscoreNames == {"_energy", "_host", "_radiance"}

startswith_(atr) == atr \in UnderscoreNames

\* '_' + atr
Private(atr) ==
    CASE atr = "energy" -> "_energy"
      [] atr = "radiance" -> "_radiance"
      [] atr = "host" -> "_host"
      [] OTHER -> "_"

\* every member name of the model in the order dir() lists them (sorted by
\* code point: upper case, then '_', then lower case)
DirOrder ==
    << "ToString", "_energy", "_host", "_radiance", "add_prefix",
       "apply_properties_from_dict", "energy", "host", "radiance",
       "reset_to_default", "to_dict" >>

\* the members the class of a variant defines itself
ClassMembers(v) ==
    {"ToString", "host", "to_dict"} \cup
    (IF v = "Model" THEN {"apply_properties_from_dict"}
                    ELSE {"add_prefix", "reset_to_default"})

\* the extension names attached to a properties object
Attached(obj) == {n \in ExtNames : Private(n) \in DOMAIN obj}

\* dir(obj): the sorted member names of a properties object
Dir(v, obj) ==
    SelectSeq(DirOrder,
              LAMBDA n : \/ n \in ClassMembers(v)
                         \/ n \in DOMAIN obj
                         \/ n \in Attached(obj))

\* [atr for atr in dir(self)
\*  if not atr.startswith('_') and atr not in self._do_not_duplicate]
ExtensionAttr(v, obj) ==
    SelectSeq(Dir(v, obj),
              LAMBDA atr : ~startswith_(atr) /\ atr \notin do_not_duplicate)

\* [atr for atr in dir(self) if not atr.startswith('_') and atr != 'host']
ModelToDictAttr(v, obj) ==
    SelectSeq(Dir(v, obj), LAMBDA atr : ~startswith_(atr) /\ atr # "host")

\* whether getattr(obj, atr) finds a member
HasMember(v, obj, atr) ==
    atr \in ClassMembers(v) \cup DOMAIN obj \cup Attached(obj)

\* getattr(obj, atr): a property reads its instance attribute, a method
\* name yields the bound method
GetAttr(v, obj, atr) ==
    IF atr \in DOMAIN obj THEN obj[atr]
    ELSE IF atr \in Attached(obj) \cup {"host"} THEN obj[Private(atr)]
    ELSE [kind |-> "method", name |-> atr]

----------------------------------------------------------------------------
(* Extension attributes: the objects of the extension packages *)

\* the classes attached under name n, of four shapes:
\*   full        every operation is a method and works
\*   bare        no operation is defined
\*   raising     every operation is a method that raises ValueError
\*   noncallable every operation name is a member that cannot be called
\*  `key` is what the class calls
\* itself: the top-level key of the dictionary its to_dict returns and its
\* string form.  An extension written for attribute n uses n; one that
\* returns its own flat dictionary uses "type".
ExtClasses(n) ==
    [shape : {"full", "raising"}, key : {n, "type"}] \cup
    [shape : {"bare", "noncallable"}, key : {n}]

\* the prefixes add_prefix is called with
Prefixes == {"p"}

ExtValue(cls, data, ident, host) ==
    [kind |-> "ext", cls |-> cls, data |-> data, ident |-> ident,
     host |-> host]

\* a host geometry object of class type (Model, Room, ...)
HostValue(id, type) == [kind |-> "host", id |-> id, type |-> type]

\* the state of member `op` of a value: "callable", "noncallable", "absent"
Member(var, op) ==
    CASE var.kind = "ext" ->
            (CASE var.cls.shape = "bare" -> "absent"
               [] var.cls.shape = "noncallable" -> "noncallable"
               [] OTHER -> "callable")
      [] var.kind = "host" ->
            IF op \in {"to_dict", "duplicate"} THEN "callable" ELSE "absent"
      [] OTHER -> "absent"

\* str(var): what '{}'.format(var) puts in a message.  It is the value's
\* own __repr__, a function of the value alone: an extension attribute
\* answers with what its class calls itself, whatever name it is attached
\* under
Str(var) ==
    CASE var.kind = "ext" -> var.cls.key
      [] var.kind = "host" -> var.id
      [] OTHER -> var.name

Returned(value) == [raised |-> FALSE, exc |-> "none", value |-> value]
Raised(exc) == [raised |-> TRUE, exc |-> exc, value |-> [kind |-> "none"]]

StrValue(s) == [kind |-> "str", s |-> s]

\* the dictionary an extension attribute puts under its key
SubDict(var, abridged) ==
    [kind |-> "dict",
     type |-> IF abridged THEN "PropertiesAbridged" ELSE "Properties",
     of |-> var.cls.key, data |-> var.data, ident |-> var.ident]

\* var.to_dict(abridged)
ExtToDict(var, abridged) ==
    IF Member(var, "to_dict") = "absent" THEN Raised("AttributeError")
    ELSE IF Member(var, "to_dict") = "noncallable" THEN Raised("TypeError")
    ELSE IF var.kind = "host"
         THEN Returned([k \in {"type"} |-> StrValue(var.type)])
    ELSE IF var.cls.shape = "raising" THEN Raised("ValueError")
    ELSE Returned([k \in {var.cls.key} |-> SubDict(var, abridged)])

\* var.duplicate(host)
ExtDuplicate(var, host) ==
    IF Member(var, "duplicate") = "absent" THEN Raised("AttributeError")
    ELSE IF Member(var, "duplicate") = "noncallable" THEN Raised("TypeError")
    ELSE IF var.cls.shape = "raising" THEN Raised("ValueError")
    ELSE Returned([var EXCEPT !.host = host])

\* var.add_prefix(prefix), in place: the value of var afterwards
ExtAddPrefix(var, prefix) ==
    IF Member(var, "add_prefix") = "absent" THEN Raised("AttributeError")
    ELSE IF Member(var, "add_prefix") = "noncallable" THEN Raised("TypeError")
    ELSE IF var.cls.shape = "raising" THEN Raised("ValueError")
    ELSE Returned([var EXCEPT !.ident = <<prefix>> \o @])

\* var.reset_to_default(), in place: the value of var afterwards
ExtResetToDefault(var) ==
    IF Member(var, "reset_to_default") = "absent"
    THEN Raised("AttributeError")
    ELSE IF Member(var, "reset_to_default") = "noncallable"
    THEN Raised("TypeError")
    ELSE IF var.cls.shape = "raising" THEN Raised("ValueError")
    ELSE Returned([var EXCEPT !.data = 0])

\* var.__class__.from_dict(data, host)
ExtFromDict(var, data, host) ==
    IF Member(var, "from_dict") = "absent" THEN Raised("AttributeError")
    ELSE IF Member(var, "from_dict") = "noncallable" THEN Raised("TypeError")
    ELSE IF var.cls.shape = "raising" THEN Raised("ValueError")
    ELSE IF data.kind # "dict" THEN Raised("TypeError")
    ELSE IF "data" \notin DOMAIN data THEN Raised("KeyError")
    ELSE IF data.of # var.cls.key THEN Raised("AssertionError")
    ELSE Returned(ExtValue(var.cls, data.data, data.ident, host))

\* callable(getattr(var, name, None))
hasattr_callable(var, name) == Member(var, name) = "callable"

\* hasattr(var, name)
hasattr(var, name) == Member(var, name) # "absent"

\* var.apply_properties_from_dict(data), in place: the value of var afterwards
ExtApplyPropertiesFromDict(var, data) ==
    IF Member(var, "apply_properties_from_dict") = "absent"
    THEN Raised("AttributeError")
    ELSE IF Member(var, "apply_properties_from_dict") = "noncallable"
    THEN Raised("TypeError")
    ELSE IF var.cls.shape = "raising" THEN Raised("ValueError")
    ELSE IF var.cls.key \notin DOMAIN data.properties THEN Raised("KeyError")
    ELSE IF data.properties[var.cls.key].kind # "dict"
    THEN Raised("TypeError")
    ELSE IF "data" \notin DOMAIN data.properties[var.cls.key]
    THEN Raised("KeyError")
    ELSE Returned([var EXCEPT !.data = data.properties[var.cls.key].data])

----------------------------------------------------------------------------
(* The run of one aggregator method *)

NoError == [type |-> "none", fmt |-> "", subject |-> "", cause |-> ""]

\* the run of a method on the instance attributes obj, merging into base
Start(obj, base) ==
    [obj |-> obj, base |-> base, raised |-> FALSE, error |-> NoError,
     probes |-> <<>>, calls |-> <<>>]

\* hasattr(var, name) is evaluated for the value var of member atr
Probe(st, atr, var, name) ==
    [st EXCEPT !.probes = Append(@, [atr |-> atr, on |-> var, name |-> name])]

\* var.op(arg) is invoked on the value var of member atr
Call(st, atr, op, var, arg) ==
    [st EXCEPT !.calls =
        Append(@, [atr |-> atr, op |-> op, on |-> var, arg |-> arg])]

\* the exception is swallowed
Fail_swallowed(st, fmt, subject, cause) == st

\* raise Exception(fmt.format(subject, cause))
Fail(st, fmt, subject, cause) ==
    [st EXCEPT !.raised = TRUE,
               !.error = [type |-> "Exception", fmt |-> fmt,
                          subject |-> subject, cause |-> cause]]

\* an exception that leaves the method as it was raised
Propagate(st, exc) ==
    [st EXCEPT !.raised = TRUE,
               !.error = [type |-> exc, fmt |-> "", subject |-> "",
                          cause |-> ""]]

\* the value is dropped instead of stored
SetAttr_dropped(st, name, value) == st

\* setattr(self, name, value)
SetAttr(st, name, value) ==
    [st EXCEPT !.obj = [n \in DOMAIN @ \cup {name} |->
                          IF n = name THEN value ELSE @[n]]]

\* base = d
Update_replace(base, d) == d

\* base.update(d)
Update(base, d) ==
    [k \in DOMAIN base \cup DOMAIN d |-> IF k \in DOMAIN d THEN d[k] ELSE base[k]]

BoolValue(b) == [kind |-> "bool", b |-> b]
NoneValue == [kind |-> "none"]

----------------------------------------------------------------------------
(* _Properties *)

RECURSIVE duplicate_loop(_, _, _, _)
\* for atr in attr: of _duplicate_extension_attr
duplicate_loop(v, attr, original_properties, st) ==
    IF attr = <<>> \/ st.raised THEN st
    ELSE
      LET atr == Head(attr)
          var == GetAttr(v, original_properties, atr)
          probed == Probe(st, atr, var, "duplicate")
          host == GetAttr(v, st.obj, "host")
          called == Call(probed, atr, "duplicate", var, host)
          r == ExtDuplicate(var, host)
      IN  IF ~hasattr(var, "duplicate")
          THEN duplicate_loop(v, Tail(attr), original_properties, probed)
          ELSE IF r.raised
          THEN Fail(called, "Failed to duplicate {}: {}", Str(var), r.exc)
          ELSE duplicate_loop(v, Tail(attr), original_properties,
                              SetAttr(called, Private(atr), r.value))

\* the values are read from self instead of original_properties
duplicate_extension_attr_of_self(v, obj, original_properties) ==
    duplicate_loop(v, ExtensionAttr(v, obj), obj, Start(obj, NoneValue))

duplicate_extension_attr(v, obj, original_properties) ==
    duplicate_loop(v, ExtensionAttr(v, obj), original_properties,
                   Start(obj, NoneValue))

RECURSIVE add_prefix_loop(_, _, _, _)
\* for atr in attr: of _add_prefix_extension_attr
add_prefix_loop(v, attr, prefix, st) ==
    IF attr = <<>> \/ st.raised THEN st
    ELSE
      LET atr == Head(attr)
          var == GetAttr(v, st.obj, atr)
          probed == Probe(st, atr, var, "add_prefix")
          called == Call(probed, atr, "add_prefix", var, StrValue(prefix))
          r == ExtAddPrefix(var, prefix)
      IN  IF ~hasattr(var, "add_prefix")
          THEN add_prefix_loop(v, Tail(attr), prefix, probed)
          ELSE IF r.raised
          THEN Fail(called, "Failed to add prefix to {}: {}", Str(var), r.exc)
          ELSE add_prefix_loop(v, Tail(attr), prefix,
                               SetAttr(called, Private(atr), r.value))

\* the attributes are put back as they were when an invocation raises
add_prefix_extension_attr_undone(v, obj, prefix) ==
    LET st == add_prefix_loop(v, ExtensionAttr(v, obj), prefix,
                              Start(obj, NoneValue))
    IN  IF st.raised THEN [st EXCEPT !.obj = obj] ELSE st

add_prefix_extension_attr(v, obj, prefix) ==
    add_prefix_loop(v, ExtensionAttr(v, obj), prefix, Start(obj, NoneValue))

RECURSIVE reset_loop(_, _, _)
\* for atr in attr: of _reset_extension_attr_to_default
reset_loop(v, attr, st) ==
    IF attr = <<>> \/ st.raised THEN st
    ELSE
      LET atr == Head(attr)
          var == GetAttr(v, st.obj, atr)
          probed == Probe(st, atr, var, "reset_to_default")
          called == Call(probed, atr, "reset_to_default", var, NoneValue)
          r == ExtResetToDefault(var)
      IN  IF ~hasattr(var, "reset_to_default")
          THEN reset_loop(v, Tail(attr), probed)
          ELSE IF r.raised
          THEN Fail(called, "Failed to reset_to_default for {}: {}",
                    Str(var), r.exc)
          ELSE reset_loop(v, Tail(attr),
                          SetAttr(called, Private(atr), r.value))

reset_extension_attr_to_default(v, obj) ==
    reset_loop(v, ExtensionAttr(v, obj), Start(obj, NoneValue))

RECURSIVE to_dict_loop(_, _, _, _)
\* for atr in attr: of _add_extension_attr_to_dict
to_dict_loop(v, attr, abridged, st) ==
    IF attr = <<>> \/ st.raised THEN st
    ELSE
      LET atr == Head(attr)
          var == GetAttr(v, st.obj, atr)
          probed == Probe(st, atr, var, "to_dict")
          called == Call(probed, atr, "to_dict", var, BoolValue(abridged))
          r == ExtToDict(var, abridged)
      IN  IF ~HasMember(v, st.obj, atr) THEN Propagate(st, "AttributeError")
          ELSE IF ~hasattr(var, "to_dict")
          THEN to_dict_loop(v, Tail(attr), abridged, probed)
          ELSE IF r.raised
          THEN Fail(called, "Failed to convert {} to a dict: {}",
                    Str(var), r.exc)
          ELSE to_dict_loop(v, Tail(attr), abridged,
                            [called EXCEPT !.base = Update(@, r.value)])

\* the include argument is ignored
add_extension_attr_to_dict_all(v, obj, base, abridged, include) ==
    to_dict_loop(v, ExtensionAttr(v, obj), abridged, Start(obj, base))

\* an include argument: None, or a list of names
NoInclude == [given |-> FALSE, names |-> <<>>]
IncludeList(names) == [given |-> TRUE, names |-> names]

add_extension_attr_to_dict(v, obj, base, abridged, include) ==
    to_dict_loop(v,
                 IF include.given THEN include.names
                                  ELSE ExtensionAttr(v, obj),
                 abridged, Start(obj, base))

\* no except clause: every exception leaves the method
load_except_reraise(st, exc) == Propagate(st, exc)

\* except KeyError: pass
load_except(st, exc) ==
    IF exc = "KeyError" THEN st ELSE Propagate(st, exc)

RECURSIVE load_loop(_, _, _, _)
\* for atr in attr: of _load_extension_attr_from_dict
load_loop(v, attr, property_dict, st) ==
    IF attr = <<>> \/ st.raised THEN st
    ELSE
      LET atr == Head(attr)
          var == GetAttr(v, st.obj, atr)
          probed == Probe(st, atr, var, "from_dict")
          host == GetAttr(v, st.obj, "host")
          present == atr \in DOMAIN property_dict
          called == IF present
                    THEN Call(probed, atr, "from_dict", var, property_dict[atr])
                    ELSE probed
          r == IF present THEN ExtFromDict(var, property_dict[atr], host)
                          ELSE Raised("KeyError")
      IN  IF ~hasattr(var, "from_dict")
          THEN load_loop(v, Tail(attr), property_dict, probed)
          ELSE IF r.raised
          THEN load_loop(v, Tail(attr), property_dict,
                         load_except(called, r.exc))
          ELSE load_loop(v, Tail(attr), property_dict,
                         SetAttr(called, Private(atr), r.value))

load_extension_attr_from_dict(v, obj, property_dict) ==
    load_loop(v, ExtensionAttr(v, obj), property_dict, Start(obj, NoneValue))

----------------------------------------------------------------------------
(* ModelProperties *)

RECURSIVE model_to_dict_loop(_, _, _)
\* for atr in attr: of ModelProperties.to_dict
model_to_dict_loop(v, attr, st) ==
    IF attr = <<>> \/ st.raised THEN st
    ELSE
      LET atr == Head(attr)
          var == GetAttr(v, st.obj, atr)
          probed == Probe(st, atr, var, "to_dict")
          called == Call(probed, atr, "to_dict", var, NoneValue)
          r == ExtToDict(var, FALSE)
      IN  IF ~HasMember(v, st.obj, atr) THEN Propagate(st, "AttributeError")
          ELSE IF ~hasattr(var, "to_dict")
          THEN model_to_dict_loop(v, Tail(attr), probed)
          ELSE IF r.raised
          THEN Fail(called, "Failed to convert {} to a dict: {}",
                    Str(var), r.exc)
          ELSE model_to_dict_loop(v, Tail(attr),
                                  [called EXCEPT !.base = Update(@, r.value)])

ModelProperties_to_dict(obj, include) ==
    model_to_dict_loop("Model",
                       IF include.given THEN include.names
                                        ELSE ModelToDictAttr("Model", obj),
                       Start(obj, [k \in {"type"} |->
                                     StrValue("ModelProperties")]))

\* every name is taken to be a key
in_properties_any(atr, data) == TRUE

\* atr in data['properties']
in_properties(atr, data) == atr \in DOMAIN data.properties

RECURSIVE apply_loop(_, _, _, _)
\* for atr in attr: of ModelProperties.apply_properties_from_dict
apply_loop(v, attr, data, st) ==
    IF attr = <<>> \/ st.raised THEN st
    ELSE
      LET atr == Head(attr)
          var == GetAttr(v, st.obj, atr)
          probed == Probe(st, atr, var, "apply_properties_from_dict")
          called == Call(probed, atr, "apply_properties_from_dict", var, data)
          r == ExtApplyPropertiesFromDict(var, data)
      IN  IF ~in_properties(atr, data)
          THEN apply_loop(v, Tail(attr), data, st)
          ELSE IF ~hasattr(var, "apply_properties_from_dict")
          THEN apply_loop(v, Tail(attr), data, probed)
          ELSE IF r.raised
          THEN Fail(called, "Failed to apply {} properties to the Model: {}",
                    atr, r.exc)
          ELSE apply_loop(v, Tail(attr), data,
                          SetAttr(called, Private(atr), r.value))

ModelProperties_apply_properties_from_dict(obj, data) ==
    apply_loop("Model", ExtensionAttr("Model", obj), data,
               Start(obj, NoneValue))

----------------------------------------------------------------------------
(* RoomProperties, FaceProperties, ShadeProperties, ApertureProperties,    *)
(* DoorProperties                                                          *)

\* the abridged flag is ignored
TypeBase_full(tag, abridged) == [k \in {"type"} |-> StrValue(tag[1])]

\* {'type': tag} if not abridged else {'type': tag + 'Abridged'}
TypeBase(tag, abridged) ==
    [k \in {"type"} |-> StrValue(IF ~abridged THEN tag[1] ELSE tag[2])]

RoomProperties_to_dict(obj, abridged, include) ==
    add_extension_attr_to_dict(
        "Room", obj,
        TypeBase(<<"RoomProperties", "RoomPropertiesAbridged">>, abridged),
        abridged, include)

FaceProperties_to_dict(obj, abridged, include) ==
    add_extension_attr_to_dict(
        "Face", obj,
        TypeBase(<<"FaceProperties", "FacePropertiesAbridged">>, abridged),
        abridged, include)

ShadeProperties_to_dict(obj, abridged, include) ==
    add_extension_attr_to_dict(
        "Shade", obj,
        TypeBase(<<"ShadeProperties", "ShadePropertiesAbridged">>, abridged),
        abridged, include)

ApertureProperties_to_dict(obj, abridged, include) ==
    add_extension_attr_to_dict(
        "Aperture", obj,
        TypeBase(<<"ApertureProperties", "AperturePropertiesAbridged">>,
                 abridged),
        abridged, include)

DoorProperties_to_dict(obj, abridged, include) ==
    add_extension_attr_to_dict(
        "Door", obj,
        TypeBase(<<"DoorProperties", "DoorPropertiesAbridged">>, abridged),
        abridged, include)

\* obj.to_dict(abridged, include) of a properties object that is no
\* ModelProperties
to_dict(v, obj, abridged, include) ==
    CASE v = "Room" -> RoomProperties_to_dict(obj, abridged, include)
      [] v = "Face" -> FaceProperties_to_dict(obj, abridged, include)
      [] v = "Shade" -> ShadeProperties_to_dict(obj, abridged, include)
      [] v = "Aperture" -> ApertureProperties_to_dict(obj, abridged, include)
      [] v = "Door" -> DoorProperties_to_dict(obj, abridged, include)

----------------------------------------------------------------------------
(* The arguments the methods are called with *)

\* the names an include list may hold
IncludeNames == ExtNames \cup {"host"}

\* the include arguments: None, or a list of distinct names
Includes ==
    {NoInclude} \cup
    {IncludeList(l) :
        l \in {q \in UNION {[1..n -> IncludeNames] : n \in 0..MaxInclude} :
                 \A i, j \in DOMAIN q : q[i] = q[j] => i = j}}

\* what a properties dictionary may hold under the key of attribute var:
\* a dictionary of its class, one with the inner key 'data' missing, or
\* no dictionary at all
SubValues(var) ==
    {SubDict([var EXCEPT !.data = d, !.ident = <<>>], FALSE) :
        d \in 1..MaxData} \cup
    {[kind |-> "dict", type |-> "Properties", of |-> var.cls.key],
     StrValue("text")}

\* the properties dictionaries given to an object: a 'type' entry and, for
\* any of its attached names, an entry
PropertyDicts(obj) ==
    UNION {
      {[k \in keys \cup {"type"} |->
          IF k = "type" THEN StrValue("Properties") ELSE sub[k]] :
         sub \in {f \in [keys -> UNION {SubValues(obj[Private(n)]) :
                                          n \in keys}] :
                    \A n \in keys : f[n] \in SubValues(obj[Private(n)])}}
      : keys \in SUBSET Attached(obj)}

----------------------------------------------------------------------------
(* Initial state and the calls *)

NewHost(v) == HostValue("new_host", v)
OldHost(v) == HostValue("old_host", v)

\* the instance attributes of a properties object of host h with the
\* extension classes cls attached, each attribute holding payload data[n]
Properties(h, cls, data) ==
    [a \in {"_host"} \cup {Private(n) : n \in DOMAIN cls} |->
        IF a = "_host" THEN h
        ELSE LET n == CHOOSE m \in DOMAIN cls : Private(m) = a
             IN  ExtValue(cls[n], data[n], <<>>, h)]

\* what a call leaves behind for its caller
Result(op, args, st) ==
    [op |-> op, args |-> args, raised |-> st.raised, error |-> st.error,
     value |-> IF st.raised THEN NoneValue ELSE st.base,
     probes |-> st.probes, calls |-> st.calls]

\* no call is held by the caller
NoCall == Result("none", NoneValue, Start(<<>>, NoneValue))

Init ==
    /\ variant \in Variants
    /\ \E names \in SUBSET ExtNames :
         \E cls \in [names -> UNION {ExtClasses(n) : n \in names}] :
           \E data \in [names -> 1..MaxData] :
             /\ \A n \in names : cls[n] \in ExtClasses(n)
             /\ self = Properties(NewHost(variant), cls, [n \in names |-> 0])
             /\ original = Properties(OldHost(variant), cls, data)
    /\ ret = NoCall

\* self._duplicate_extension_attr(original)
Duplicate ==
    /\ ret = NoCall
    /\ \E st \in {duplicate_extension_attr(variant, self, original)} :
        /\ self' = st.obj
        /\ ret' = Result("duplicate", NoneValue, st)
        /\ UNCHANGED <<variant, original>>

\* self._add_prefix_extension_attr(prefix)
AddPrefix ==
    /\ ret = NoCall
    /\ \A n \in Attached(self) : Len(self[Private(n)].ident) < MaxPrefix
    /\ \E prefix \in Prefixes :
        \E st \in {add_prefix_extension_attr(variant, self, prefix)} :
          /\ self' = st.obj
          /\ ret' = Result("add_prefix", [prefix |-> prefix], st)
          /\ UNCHANGED <<variant, original>>

\* self._reset_extension_attr_to_default()
ResetToDefault ==
    /\ ret = NoCall
    /\ \E st \in {reset_extension_attr_to_default(variant, self)} :
        /\ self' = st.obj
        /\ ret' = Result("reset_to_default", NoneValue, st)
        /\ UNCHANGED <<variant, original>>

\* self.to_dict(abridged, include) of the five classes that have abridged
ToDict ==
    /\ ret = NoCall
    /\ variant # "Model"
    /\ \E abridged \in BOOLEAN, include \in Includes :
        \E st \in {to_dict(variant, self, abridged, include)} :
          /\ self' = st.obj
          /\ ret' = Result("to_dict",
                           [abridged |-> abridged, include |-> include], st)
          /\ UNCHANGED <<variant, original>>

\* self.to_dict(include) of ModelProperties
ModelToDict ==
    /\ ret = NoCall
    /\ variant = "Model"
    /\ \E include \in Includes :
        \E st \in {ModelProperties_to_dict(self, include)} :
          /\ self' = st.obj
          /\ ret' = Result("to_dict",
                           [abridged |-> FALSE, include |-> include], st)
          /\ UNCHANGED <<variant, original>>

\* the dictionary original.to_dict(abridged) returns, if it returns
Serialized(v, obj, abridged) ==
    LET st == IF v = "Model" THEN ModelProperties_to_dict(obj, NoInclude)
              ELSE to_dict(v, obj, abridged, NoInclude)
    IN  IF st.raised THEN {} ELSE {st.base}

\* self._load_extension_attr_from_dict(property_dict), with a dictionary
\* written for self or with the dictionary original.to_dict returns
LoadFromDict ==
    /\ ret = NoCall
    /\ \E property_dict \in PropertyDicts(self) \cup
                            Serialized(variant, original, FALSE) \cup
                            Serialized(variant, original, TRUE) :
        \E st \in {load_extension_attr_from_dict(variant, self,
                                                property_dict)} :
          /\ self' = st.obj
          /\ ret' = Result("from_dict", [property_dict |-> property_dict], st)
          /\ UNCHANGED <<variant, original>>

\* self.apply_properties_from_dict(data) of ModelProperties
ApplyPropertiesFromDict ==
    /\ ret = NoCall
    /\ variant = "Model"
    /\ \E properties \in PropertyDicts(self) :
        \E st \in {ModelProperties_apply_properties_from_dict(
                        self, [type |-> "Model", properties |-> properties])} :
          /\ self' = st.obj
          /\ ret' = Result("apply_properties_from_dict",
                           [type |-> "Model", properties |-> properties], st)
          /\ UNCHANGED <<variant, original>>

\* the caller drops the result of its call, or handles the exception, and
\* is ready for the next call
Return ==
    /\ ret # NoCall
    /\ ret' = NoCall
    /\ UNCHANGED <<variant, self, original>>

Next ==
    \/ Duplicate
    \/ AddPrefix
    \/ ResetToDefault
    \/ ToDict
    \/ ModelToDict
    \/ LoadFromDict
    \/ ApplyPropertiesFromDict
    \/ Return

Spec == Init /\ [][Next]_vars

----------------------------------------------------------------------------
(* Properties of the aggregator methods *)

\* the host of the object operated on
SelfHost == self["_host"]

\* the last invocation a call made
LastCall == ret.calls[Len(ret.calls)]

\* what the invocation c of from_dict did
FromDictOf(c) == ExtFromDict(c.on, c.arg, SelfHost)

\* C1: whenever _load_extension_attr_from_dict invokes from_dict of an
\* attached extension on the sub-map found under its key and from_dict
\* raises, whatever the exception, the call raises to its caller.
C1_FromDictFailureRaises ==
    ret.op = "from_dict" =>
        \A i \in DOMAIN ret.calls :
            FromDictOf(ret.calls[i]).raised => ret.raised

\* what the invocation c of to_dict did
ToDictOf(c) == ExtToDict(c.on, ret.args.abridged)

\* a to_dict call in which the to_dict of a selected extension raised
ToDictFailed ==
    /\ ret.op = "to_dict"
    /\ ret.calls # <<>>
    /\ ToDictOf(LastCall).raised

AttachedSeq(obj) ==
    SelectSeq(<<"energy", "radiance">>, LAMBDA n : n \in Attached(obj))

\* the members a sequence of invocations was made on
Atrs(calls) == [i \in DOMAIN calls |-> calls[i].atr]

\* C3: in a call of _load_extension_attr_from_dict every attached
\* extension whose name is no key of the input map keeps its value and is
\* not invoked, and a missing key never makes the call raise: when the
\* call raises, it is the from_dict of an extension whose key is present
\* that raised.  Every extension reached whose key is present and whose
\* from_dict returns is replaced by what from_dict(sub-map, host) returned.
C3_MissingKeyStep ==
    ret'.op = "from_dict" =>
      LET pd == ret'.args.property_dict
          calls == ret'.calls
      IN  /\ \A n \in Attached(self) \ DOMAIN pd :
                /\ self'[Private(n)] = self[Private(n)]
                /\ \A i \in DOMAIN calls : calls[i].atr # n
          /\ ret'.raised =>
                /\ calls # <<>>
                /\ calls[Len(calls)].atr \in DOMAIN pd
                /\ ExtFromDict(calls[Len(calls)].on, calls[Len(calls)].arg,
                               SelfHost).raised
          /\ ~ret'.raised =>
                Atrs(calls) =
                  SelectSeq(AttachedSeq(self),
                            LAMBDA n : /\ n \in DOMAIN pd
                                       /\ Member(self[Private(n)],
                                                 "from_dict") # "absent")
          /\ \A i \in DOMAIN calls :
                LET r == ExtFromDict(self[Private(calls[i].atr)],
                                     pd[calls[i].atr], SelfHost)
                IN  ~r.raised => self'[Private(calls[i].atr)] = r.value

C3_MissingKeyTolerance == [][C3_MissingKeyStep]_vars

C3_Witness ==
    /\ ret.op = "from_dict"
    /\ ~ret.raised
    /\ "energy" \in Attached(self)
    /\ "energy" \notin DOMAIN ret.args.property_dict
    /\ self["_energy"].cls.shape = "full"
    /\ self["_energy"].ident # <<>>
    /\ Atrs(ret.calls) = <<"radiance">>
    /\ ~FromDictOf(ret.calls[1]).raised
    /\ self["_radiance"] = FromDictOf(ret.calls[1]).value
    /\ self["_radiance"].data > 0

----------------------------------------------------------------------------

\* the map original.to_dict(abridged) returned is what self was loaded from
LoadedFromOriginal(abridged) ==
    /\ ret.op = "from_dict"
    /\ variant # "Model"
    /\ ret.args.property_dict \in Serialized(variant, original, abridged)

\* every attached extension has to_dict and from_dict
AllSerializable(obj) ==
    \A n \in Attached(obj) :
        /\ Member(obj[Private(n)], "to_dict") = "callable"
        /\ Member(obj[Private(n)], "from_dict") = "callable"

\* self has the extensions of original, each with the same to_dict output
SameAsOriginal(abridged) ==
    /\ ~ret.raised
    /\ Attached(self) = Attached(original)
    /\ \A n \in Attached(original) :
          ExtToDict(self[Private(n)], abridged) =
          ExtToDict(original[Private(n)], abridged)

\* C4 as stated: loading the map that to_dict of a properties object with
\* serializable extensions returned restores every extension's to_dict
\* output, for each abridged value.
C4_RoundTripAnyExtension ==
    \A abridged \in BOOLEAN :
        LoadedFromOriginal(abridged) /\ AllSerializable(original)
            => SameAsOriginal(abridged)

\* the to_dict of every attached extension of obj returns a map whose only
\* key is the name it is attached under, and its from_dict rebuilds from
\* that entry a value with the same to_dict output
WellKeyed(obj, abridged) ==
    \A n \in Attached(obj) :
        LET d == ExtToDict(obj[Private(n)], abridged)
        IN  /\ ~d.raised
            /\ DOMAIN d.value = {n}
            /\ LET f == ExtFromDict(obj[Private(n)], d.value[n], SelfHost)
               IN  /\ ~f.raised
                   /\ ExtToDict(f.value, abridged) = d

\* C4 as amended: the round trip restores every extension's to_dict output
\* when each extension's to_dict returns a map whose only key is the name
\* it is attached under and its from_dict rebuilds an equal value from the
\* entry under that key.
C4_RoundTripWellKeyed ==
    \A abridged \in BOOLEAN :
        LoadedFromOriginal(abridged) /\ WellKeyed(original, abridged)
            => SameAsOriginal(abridged)

C4_Witness ==
    /\ LoadedFromOriginal(TRUE)
    /\ WellKeyed(original, TRUE)
    /\ Attached(original) = ExtNames
    /\ \A n \in ExtNames : original[Private(n)].data > 0
    /\ Len(ret.calls) = 2
    /\ \E i \in DOMAIN ret.calls : ret.calls[i].on.data = 0

----------------------------------------------------------------------------

\* the "type" a to_dict of variant v is to return
ExpectedTag(v, abridged) ==
    CASE v = "Model" -> "ModelProperties"
      [] v = "Room" /\ ~abridged -> "RoomProperties"
      [] v = "Room" /\ abridged -> "RoomPropertiesAbridged"
      [] v = "Face" /\ ~abridged -> "FaceProperties"
      [] v = "Face" /\ abridged -> "FacePropertiesAbridged"
      [] v = "Shade" /\ ~abridged -> "ShadeProperties"
      [] v = "Shade" /\ abridged -> "ShadePropertiesAbridged"
      [] v = "Aperture" /\ ~abridged -> "ApertureProperties"
      [] v = "Aperture" /\ abridged -> "AperturePropertiesAbridged"
      [] v = "Door" /\ ~abridged -> "DoorProperties"
      [] v = "Door" /\ abridged -> "DoorPropertiesAbridged"

\* the map to_dict merges into
Target ==
    [k \in {"type"} |-> StrValue(ExpectedTag(variant, ret.args.abridged))]

\* d merged into base, the entries of d replacing those of base
Merged(base, d) ==
    [k \in DOMAIN base \cup DOMAIN d |->
        IF k \in DOMAIN d THEN d[k] ELSE base[k]]

\* the attached extensions that have a to_dict member, in order
Serializable ==
    SelectSeq(AttachedSeq(self),
              LAMBDA n : Member(self[Private(n)], "to_dict") # "absent")

RECURSIVE MergedAll(_, _)
\* the to_dict results of the extensions names merged into base in order
MergedAll(names, base) ==
    IF names = <<>> THEN base
    ELSE MergedAll(Tail(names),
                   Merged(base, ExtToDict(self[Private(Head(names))],
                                          ret.args.abridged).value))

----------------------------------------------------------------------------

\* a to_dict call with include omitted that returned a map
ReturnedAll ==
    /\ ret.op = "to_dict"
    /\ ~ret.args.include.given
    /\ ~ret.raised

\* C6 as stated: the keys of the map to_dict returns, other than "type",
\* are the names of the attached extensions that have to_dict, whatever
\* their to_dict returns.
C6_KeysAreNames ==
    ReturnedAll =>
        DOMAIN ret.value \ {"type"} =
            {Serializable[i] : i \in DOMAIN Serializable}

\* C6 as amended: the keys of the map to_dict returns are "type" and the
\* keys of the maps the to_dict of the attached extensions returned; they
\* are the extensions' names when each to_dict returns a map whose only
\* key is the name the extension is attached under.
C6_KeysAreReturnedKeys ==
    ReturnedAll =>
        LET returned(n) ==
                DOMAIN ExtToDict(self[Private(n)], ret.args.abridged).value
            names == {Serializable[i] : i \in DOMAIN Serializable}
        IN  /\ DOMAIN ret.value = {"type"} \cup UNION {returned(n) : n \in names}
            /\ (\A n \in names : returned(n) = {n}) =>
                  DOMAIN ret.value \ {"type"} = names

C6_Witness ==
    /\ ReturnedAll
    /\ Len(Serializable) = 2
    /\ DOMAIN ret.value = {"type", "radiance"}
    /\ Len(AttachedSeq(self)) = 2

----------------------------------------------------------------------------

\* the attached extensions of original that have a duplicate member
Duplicable ==
    SelectSeq(AttachedSeq(original),
              LAMBDA n : Member(original[Private(n)], "duplicate") # "absent")

\* C7: _duplicate_extension_attr invokes duplicate on the values of
\* original, never on those of self, with the host of self; it leaves
\* original as it was; what each duplicate returns is stored on self under
\* the same name and every other attribute of self keeps its value; when
\* the call returns, every extension of original that has duplicate was
\* invoked.
C7_DuplicateStep ==
    ret'.op = "duplicate" =>
      LET calls == ret'.calls
          invoked == {calls[i].atr : i \in DOMAIN calls}
      IN  /\ original' = original
          /\ \A i \in DOMAIN calls :
                /\ calls[i].on = original[Private(calls[i].atr)]
                /\ calls[i].arg = SelfHost
          /\ Atrs(calls) = SubSeq(Duplicable, 1, Len(calls))
          /\ ~ret'.raised => Atrs(calls) = Duplicable
          /\ \A a \in DOMAIN self :
                LET n == CHOOSE m \in ExtNames \cup {"host"} : Private(m) = a
                    r == ExtDuplicate(original[a], SelfHost)
                IN  IF n \in invoked /\ ~r.raised
                    THEN self'[a] = r.value
                    ELSE self'[a] = self[a]

C7_DuplicateAll == [][C7_DuplicateStep]_vars

C7_Witness ==
    /\ ret.op = "duplicate"
    /\ ~ret.raised
    /\ Atrs(ret.calls) = <<"energy">>
    /\ "radiance" \in Attached(self)
    /\ ret.calls[1].on.host.id = "old_host"
    /\ self["_energy"].host.id = "new_host"
    /\ self["_energy"].data = original["_energy"].data
    /\ self["_energy"].data > 0
    /\ self["_radiance"].data = 0

----------------------------------------------------------------------------

\* C8 as stated: the map to_dict returns has "type" equal to the tag of
\* its class, with 'Abridged' appended when abridged is true except for
\* ModelProperties, for every set of extensions and every include list.
C8_TypeTagAlways ==
    ret.op = "to_dict" /\ ~ret.raised =>
        ret.value["type"] = StrValue(ExpectedTag(variant, ret.args.abridged))

\* C8 as amended: the map to_dict returns has "type" equal to the tag of
\* its class provided that none of the to_dict results merged into it has
\* a "type" entry of its own.
C8_TypeTagUnlessOverwritten ==
    ( /\ ret.op = "to_dict" /\ ~ret.raised
      /\ \A i \in DOMAIN ret.calls :
            "type" \notin DOMAIN ToDictOf(ret.calls[i]).value ) =>
        ret.value["type"] = StrValue(ExpectedTag(variant, ret.args.abridged))

C8_Witness ==
    /\ ret.op = "to_dict" /\ ~ret.raised
    /\ ret.args.abridged
    /\ variant = "Aperture"
    /\ Len(ret.calls) = 2
    /\ DOMAIN ret.value = {"type", "energy", "radiance"}
    /\ ret.value["type"] = StrValue("AperturePropertiesAbridged")

----------------------------------------------------------------------------

\* C9: no method ever probes or invokes the value of 'host', 'to_dict',
\* 'ToString' or of a name that starts with an underscore.
C9_ReservedNeverSelected ==
    /\ \A i \in DOMAIN ret.probes :
          ret.probes[i].atr \notin do_not_duplicate \cup UnderscoreNames
    /\ \A i \in DOMAIN ret.calls :
          ret.calls[i].atr \notin do_not_duplicate \cup UnderscoreNames

----------------------------------------------------------------------------

\* the probes of the call that found a member and, in
\* _load_extension_attr_from_dict, a key to load from
Found ==
    SelectSeq(ret.probes,
              LAMBDA p : /\ Member(p.on, p.name) # "absent"
                         /\ ret.op = "from_dict" =>
                               p.atr \in DOMAIN ret.args.property_dict)

\* C10 as stated: a value is invoked if and only if its member of the
\* operation's name is callable; a member that is not callable is skipped.
C10_InvokedIffCallable ==
    /\ \A i \in DOMAIN ret.calls :
          Member(ret.calls[i].on, ret.calls[i].op) = "callable"
    /\ Atrs(ret.calls) =
          Atrs(SelectSeq(Found, LAMBDA p : Member(p.on, p.name) = "callable"))

\* C10 as amended: a value is invoked if and only if it has a member of
\* the operation's name, callable or not; a value without the member is
\* skipped and never makes the call raise; a member that is not callable
\* is invoked, which raises TypeError and makes the call raise.
C10_InvokedIffHasattr ==
    /\ Atrs(ret.calls) = Atrs(Found)
    /\ \A i \in DOMAIN ret.calls :
          Member(ret.calls[i].on, ret.calls[i].op) = "noncallable" =>
              /\ i = Len(ret.calls)
              /\ ret.raised
              /\ "TypeError" \in {ret.error.type, ret.error.cause}
    /\ ret.raised /\ ret.error.type # "AttributeError" =>
          /\ ret.calls # <<>>
          /\ Member(LastCall.on, LastCall.op) # "absent"

C10_Witness ==
    /\ ret.raised
    /\ ret.op = "add_prefix"
    /\ Len(ret.calls) = 2
    /\ Len(ret.probes) > 2
    /\ Member(LastCall.on, "add_prefix") = "noncallable"
    /\ ret.error.cause = "TypeError"

----------------------------------------------------------------------------

\* the attached extensions of obj that have the member op, in the order
\* the methods visit them
Capable(obj, op) ==
    SelectSeq(AttachedSeq(obj),
              LAMBDA n : Member(obj[Private(n)], op) # "absent")

\* the extensions ModelProperties.apply_properties_from_dict(data) is to
\* invoke: those whose name is a key of data['properties'] and that have
\* apply_properties_from_dict
Appliable(obj, data) ==
    SelectSeq(Capable(obj, "apply_properties_from_dict"),
              LAMBDA n : n \in DOMAIN data.properties)

\* C11: ModelProperties.apply_properties_from_dict(data) invokes
\* apply_properties_from_dict, with the whole of data, on the extensions
\* whose name is a key of data['properties'] and that have the member, in
\* order and up to the first that raises; an extension whose name is no key
\* or that lacks the member is not invoked, keeps its value and never makes
\* the call raise; the call raises exactly when an invocation raised, and
\* the error then carries the name of that extension and the exception it
\* raised.
C11_ApplyStep ==
    ret'.op = "apply_properties_from_dict" =>
      LET data == ret'.args
          calls == ret'.calls
          k == Len(calls)
          due == Appliable(self, data)
          invoked == {calls[i].atr : i \in DOMAIN calls}
      IN  /\ k <= Len(due)
          /\ Atrs(calls) = SubSeq(due, 1, k)
          /\ ~ret'.raised => k = Len(due)
          /\ \A i \in DOMAIN calls :
                /\ calls[i].op = "apply_properties_from_dict"
                /\ calls[i].arg = data
                /\ calls[i].on = self[Private(calls[i].atr)]
                /\ ExtApplyPropertiesFromDict(calls[i].on, data).raised
                      => i = k
          /\ DOMAIN self' = DOMAIN self
          /\ \A n \in Attached(self) :
                LET r == ExtApplyPropertiesFromDict(self[Private(n)], data)
                IN  IF n \in invoked /\ ~r.raised
                    THEN self'[Private(n)] = r.value
                    ELSE self'[Private(n)] = self[Private(n)]
          /\ ret'.raised <=>
                /\ k > 0
                /\ ExtApplyPropertiesFromDict(calls[k].on, data).raised
          /\ ret'.raised =>
                ret'.error =
                    [type |-> "Exception",
                     fmt |-> "Failed to apply {} properties to the Model: {}",
                     subject |-> calls[k].atr,
                     cause |->
                        ExtApplyPropertiesFromDict(calls[k].on, data).exc]

C11_ModelApply == [][C11_ApplyStep]_vars

C11_Witness ==
    /\ ret.op = "apply_properties_from_dict"
    /\ ret.raised
    /\ Atrs(ret.calls) = <<"radiance">>
    /\ "energy" \in Attached(self)
    /\ "energy" \notin DOMAIN ret.args.properties
    /\ Member(self["_energy"], "apply_properties_from_dict") = "callable"
    /\ ret.error.subject = "radiance"
    /\ Str(LastCall.on) # "radiance"
    /\ ret.error.cause = "ValueError"

----------------------------------------------------------------------------

\* what the in-place operation op of a call does to the value var
InPlace(op, args, var) ==
    IF op = "add_prefix" THEN ExtAddPrefix(var, args.prefix)
    ELSE ExtResetToDefault(var)

\* C12: _add_prefix_extension_attr and _reset_extension_attr_to_default
\* invoke the extensions that have the member in enumeration order.  If
\* the invocation on one of them raises, the call raises and returns
\* nothing, every extension with the member earlier in the order holds what
\* its invocation left, and no extension later in the order is invoked or
\* changed.  If none raises, the call returns and all of them were invoked.
C12_StopStep ==
    ret'.op \in {"add_prefix", "reset_to_default"} =>
      LET op == ret'.op
          calls == ret'.calls
          k == Len(calls)
          due == Capable(self, op)
          Op(n) == InPlace(op, ret'.args, self[Private(n)])
          failing == {i \in DOMAIN due : Op(due[i]).raised}
          stop == IF failing = {} THEN Len(due)
                  ELSE CHOOSE i \in failing : \A j \in failing : i <= j
      IN  /\ k = stop
          /\ Atrs(calls) = SubSeq(due, 1, stop)
          /\ \A i \in DOMAIN calls :
                /\ calls[i].op = op
                /\ calls[i].on = self[Private(calls[i].atr)]
          /\ ret'.raised <=> failing # {}
          /\ ret'.raised =>
                /\ ret'.value = NoneValue
                /\ ret'.error.type = "Exception"
                /\ ret'.error.cause = Op(due[stop]).exc
          /\ DOMAIN self' = DOMAIN self
          /\ self'["_host"] = self["_host"]
          /\ \A i \in DOMAIN due :
                IF i <= stop /\ i \notin failing
                THEN self'[Private(due[i])] = Op(due[i]).value
                ELSE self'[Private(due[i])] = self[Private(due[i])]
          /\ \A n \in Attached(self) :
                (\A i \in DOMAIN due : due[i] # n) =>
                    self'[Private(n)] = self[Private(n)]

C12_StopAtFirstFailure == [][C12_StopStep]_vars

C12_Witness ==
    /\ ret.op = "add_prefix"
    /\ ret.raised
    /\ Atrs(ret.calls) = <<"energy", "radiance">>
    /\ ret.calls[1].on.ident = <<>>
    /\ self["_energy"].ident = <<"p">>
    /\ self["_radiance"] = ret.calls[2].on
    /\ ret.error.cause = "ValueError"

====
